---------------------------- MODULE Spec2Model ----------------------------
(***************************************************************************)
(* The layer builder of oci_builder (layer_builder.py): analyze_lowers     *)
(* folds the ordered lower tars into lower_files / lower_dir_contents, and *)
(* create_layer walks the upper tree and writes the delta layer.           *)
(*                                                                         *)
(* A path is the sequence of its "/"-separated components, so "./a" is     *)
(* <<".", "a">>, "d/x" is <<"d", "x">> and "" is << >>.  A component is a  *)
(* string, and the ".wh." prefixes are tested on the characters.           *)
(***************************************************************************)
EXTENDS Integers, Sequences, FiniteSets, TLC

VARIABLES
    upper,               \* the upper tree: normalised path -> stat record
    lowers,              \* the lower tars, each the sequence of its members
    epoch,               \* os.environ.get("SOURCE_DATE_EPOCH"): None or a string
    pc,                  \* "fold", "walk", "done", "error", and in build_layer
                         \* "body", "describe", "promote", "except", "created"
    li, mi,              \* analyze_lowers: current tar and member
    lower_files,         \* dict name -> tar, in insertion order: <<name, tar>>*
    lower_dir_contents,  \* dict dirname -> list of basenames
    stack,               \* create_layer: directories still to visit
    root,                \* the directory being visited
    files,               \* sorted(files) not yet handled in root
    inodes,              \* output.inodes: set of <<inode, arcname>>
    output,              \* the entries written by output.addfile, in order
    err,                 \* the exception that ended the run, "" if none
    run,                 \* 1 for the first run on the input, 2 for the second
    prev,                \* the output of the first run, once it completed
    compression,         \* global_conf.compression, None until build_layer reads it
    tmpfile,             \* the NamedTemporaryFile of Blob.create: exists, data
    blobs,               \* the files under blobs/sha256: name, data
    blob,                \* the Blob object: descriptor, filename
    cleanup              \* how os.unlink(filename) in the handler ended, "" if not run

vars == <<upper, lowers, epoch, pc, li, mi, lower_files, lower_dir_contents,
          stack, root, files, inodes, output, err, run, prev,
          compression, tmpfile, blobs, blob, cleanup>>

None == "None"

-----------------------------------------------------------------------------
(* tarfile's type flags and the PAX keys of layer_builder.py                *)

REGTYPE == "0"
LNKTYPE == "1"
SYMTYPE == "2"
DIRTYPE == "5"
FIFOTYPE == "6"
CHRTYPE == "3"
BLKTYPE == "4"

PAX_HEADER_SHA256 == "freedesktopsdk.checksum.sha256"
PAX_HEADER_XATTR == "SCHILY.xattr."
XATTR_SHA256 == "user.checksum.sha256"

-----------------------------------------------------------------------------
(* Strings                                                                  *)

startswith(s, p) == Len(s) >= Len(p) /\ SubSeq(s, 1, Len(p)) = p

\* s[n:]
strfrom(s, n) == SubSeq(s, n + 1, Len(s))

\* the characters of the names, in code point order
Alphabet == <<".", "a", "b", "c", "d", "h", "o", "p", "q", "w", "x", "y">>

ord(ch) == CHOOSE i \in 1..Len(Alphabet) : Alphabet[i] = ch

\* Python's s < t on str
RECURSIVE strless(_, _)
strless(s, t) ==
    IF t = "" THEN FALSE
    ELSE IF s = "" THEN TRUE
    ELSE IF SubSeq(s, 1, 1) = SubSeq(t, 1, 1)
         THEN strless(strfrom(s, 1), strfrom(t, 1))
         ELSE ord(SubSeq(s, 1, 1)) < ord(SubSeq(t, 1, 1))

\* sorted(names) for a list of distinct names
RECURSIVE sorted(_)
sorted(names) ==
    IF names = << >> THEN << >>
    ELSE LET i == CHOOSE i \in 1..Len(names) :
                      \A j \in 1..Len(names) : j = i \/ strless(names[i], names[j])
         IN  <<names[i]>> \o
             sorted(SubSeq(names, 1, i - 1) \o SubSeq(names, i + 1, Len(names)))

reversed(s) == [i \in 1..Len(s) |-> s[Len(s) + 1 - i]]

Range(s) == {s[i] : i \in 1..Len(s)}

-----------------------------------------------------------------------------
(* Paths                                                                    *)

\* os.path.split(name) = (dirname, basename)
dirname_of(name) == SubSeq(name, 1, Len(name) - 1)
basename_of(name) == name[Len(name)]

\* os.path.join(dir, base)
join(dir, base) == Append(dir, base)

\* k.startswith(dir + "/") for relative names
startswith_dir(k, dir) ==
    /\ dir # << >>
    /\ Len(k) > Len(dir)
    /\ SubSeq(k, 1, Len(dir)) = dir

\* os.path.relpath(root, upper)
relpath(dir) == IF dir = << >> THEN <<".">> ELSE dir

-----------------------------------------------------------------------------
(* Bytes and digests                                                        *)

\* a bytes object and bytes.decode()
Bytes(s) == [bytes |-> s]
decode(b) == b.bytes

\* hashlib.sha256(content).hexdigest(): injective on the contents of the model
file_sha256(content) == "sha256(" \o content \o ")"

-----------------------------------------------------------------------------
(* dicts kept in insertion order, as sequences of <<key, value>>            *)

keys(d) == [i \in 1..Len(d) |-> d[i][1]]
has_key(d, k) == \E i \in 1..Len(d) : d[i][1] = k
get(d, k) == d[CHOOSE i \in 1..Len(d) : d[i][1] = k][2]

RECURSIVE del_keys(_, _)
del_keys(d, ks) ==
    IF d = << >> THEN << >>
    ELSE IF d[1][1] \in ks THEN del_keys(Tail(d), ks)
         ELSE <<d[1]>> \o del_keys(Tail(d), ks)

\* d[k] = v: a key already there keeps its place
set_key(d, k, v) ==
    IF has_key(d, k)
    THEN [i \in 1..Len(d) |-> IF d[i][1] = k THEN <<k, v>> ELSE d[i]]
    ELSE Append(d, <<k, v>>)

-----------------------------------------------------------------------------
(* stat results of the upper tree                                           *)

S_IFIFO == 4096       \* 0o010000
S_IFCHR == 8192       \* 0o020000
S_IFBLK == 24576      \* 0o060000
S_IFDIR == 16384      \* 0o040000
S_IFREG == 32768      \* 0o100000
S_IFLNK == 40960      \* 0o120000

S_IMODE(mode) == mode % 4096
S_IFMT(mode) == (mode \div 4096) * 4096

is_dir(path) == S_IFMT(upper[path].st_mode) = S_IFDIR

\* st_nlink: the paths of the tree that share the inode
st_nlink(path) ==
    Cardinality({q \in DOMAIN upper : upper[q].st_ino = upper[path].st_ino})

\* the names os.scandir(dir) yields
children(dir) ==
    {basename_of(p) : p \in {q \in DOMAIN upper :
                                 Len(q) = Len(dir) + 1 /\ dirname_of(q) = dir}}

\* every order in which os.scandir may yield the names
scan_orders(names) ==
    {s \in [1..Cardinality(names) -> names] : Range(s) = names}

\* [x for x in s if keep(x)], for keep given as a set
RECURSIVE filter(_, _)
filter(s, keep) ==
    IF s = << >> THEN << >>
    ELSE IF s[1] \in keep THEN <<s[1]>> \o filter(Tail(s), keep)
         ELSE filter(Tail(s), keep)

\* int(s) for a string of decimal digits; -1 where int() raises ValueError
Digits == <<"0", "1", "2", "3", "4", "5", "6", "7", "8", "9">>

RECURSIVE int_digits(_, _)
int_digits(s, acc) ==
    IF s = "" THEN acc
    ELSE LET d == SubSeq(s, 1, 1)
         IN  IF \E i \in 1..10 : Digits[i] = d
             THEN int_digits(strfrom(s, 1),
                             acc * 10 + (CHOOSE i \in 1..10 : Digits[i] = d) - 1)
             ELSE -1

int(s) == IF s = "" THEN -1 ELSE int_digits(s, 0)

-----------------------------------------------------------------------------
(* analyze_lowers                                                           *)

member == lowers[li][mi]

more_members == li <= Len(lowers)

\* the position of the member after <<l, m>>, skipping tars with no member
RECURSIVE first_member(_)
first_member(l) ==
    IF l > Len(lowers) THEN <<l, 1>>
    ELSE IF Len(lowers[l]) > 0 THEN <<l, 1>>
         ELSE first_member(l + 1)

next_member ==
    IF mi < Len(lowers[li]) THEN <<li, mi + 1>> ELSE first_member(li + 1)

walk_unchanged == UNCHANGED <<stack, root, files, inodes, output, lower_dir_contents>>
blob_unchanged == UNCHANGED <<compression, tmpfile, blobs, blob, cleanup>>

\* create_layer leaves its arguments alone, and the output directory too
input_unchanged == UNCHANGED <<upper, lowers, epoch, run, prev>> /\ blob_unchanged

\* basename == ".wh..wh..opq": drop every key under dirname + "/"
opaque_delete(lf, dirname) ==
    del_keys(lf, {k \in Range(keys(lf)) : startswith_dir(k, dirname)})

FoldOpaque ==
    /\ pc = "fold" /\ more_members
    /\ basename_of(member.name) = ".wh..wh..opq"
    /\ lower_files' = opaque_delete(lower_files, dirname_of(member.name))
    /\ li' = next_member[1] /\ mi' = next_member[2]
    /\ UNCHANGED <<pc, err>>
    /\ walk_unchanged /\ input_unchanged

\* the key a ".wh.<name>" member deletes
whiteout_target(name) == join(dirname_of(name), strfrom(basename_of(name), 4))

is_whiteout(name) ==
    /\ basename_of(name) # ".wh..wh..opq"
    /\ startswith(basename_of(name), ".wh.")

\* del lower_files[key] on a key that is there
FoldWhiteout ==
    /\ pc = "fold" /\ more_members
    /\ is_whiteout(member.name)
    /\ has_key(lower_files, whiteout_target(member.name))
    /\ lower_files' = del_keys(lower_files, {whiteout_target(member.name)})
    /\ li' = next_member[1] /\ mi' = next_member[2]
    /\ UNCHANGED <<pc, err>>
    /\ walk_unchanged /\ input_unchanged

\* del lower_files[key] on a key that is not there raises KeyError
FoldWhiteoutMissing ==
    /\ pc = "fold" /\ more_members
    /\ is_whiteout(member.name)
    /\ ~has_key(lower_files, whiteout_target(member.name))
    /\ pc' = "error" /\ err' = "KeyError"
    /\ UNCHANGED <<li, mi, lower_files>>
    /\ walk_unchanged /\ input_unchanged

\* lower_files[lower_member.name] = lower
FoldMember ==
    /\ pc = "fold" /\ more_members
    /\ ~startswith(basename_of(member.name), ".wh.")
    /\ lower_files' = set_key(lower_files, member.name, li)
    /\ li' = next_member[1] /\ mi' = next_member[2]
    /\ UNCHANGED <<pc, err>>
    /\ walk_unchanged /\ input_unchanged

\* lower_dir_contents: the basenames of the keys, grouped by dirname, in key order
RECURSIVE basenames_in(_, _)
basenames_in(ks, dirname) ==
    IF ks = << >> THEN << >>
    ELSE IF dirname_of(ks[1]) = dirname
         THEN <<basename_of(ks[1])>> \o basenames_in(Tail(ks), dirname)
         ELSE basenames_in(Tail(ks), dirname)

dir_contents(lf) ==
    [d \in {dirname_of(k) : k \in Range(keys(lf))} |-> basenames_in(keys(lf), d)]

\* the end of analyze_lowers and the start of create_layer's loop: stack = [upper]
AnalyzeDone ==
    /\ pc = "fold" /\ ~more_members
    /\ lower_dir_contents' = dir_contents(lower_files)
    /\ stack' = << << >> >>
    /\ pc' = "walk"
    /\ UNCHANGED <<li, mi, lower_files, root, files, inodes, output, err>>
    /\ input_unchanged

-----------------------------------------------------------------------------
(* TarInfo and the TarFile calls create_layer makes                         *)

no_headers == [k \in {} |-> ""]

TarInfo(name, type, mode, uid, gid, mtime, size, linkname, pax_headers) ==
    [name |-> name, type |-> type, mode |-> mode, uid |-> uid, gid |-> gid,
     mtime |-> mtime, size |-> size, linkname |-> linkname,
     pax_headers |-> pax_headers]

\* tar.getmember(name): the last member of that name
getmember(tar, name) ==
    tar[CHOOSE i \in 1..Len(tar) :
            /\ tar[i].name = name
            /\ \A j \in (i + 1)..Len(tar) : tar[j].name # name]

\* whether gettarinfo sees a regular file as a further link to a cached inode
is_hardlink(path, arcname, cache) ==
    /\ st_nlink(path) > 1
    /\ \E e \in cache : e[1] = upper[path].st_ino /\ e[2] # arcname

\* the type gettarinfo gives a file that is not a regular file
special_type(fmt) ==
    IF fmt = S_IFDIR THEN DIRTYPE
    ELSE IF fmt = S_IFLNK THEN SYMTYPE
    ELSE IF fmt = S_IFIFO THEN FIFOTYPE
    ELSE IF fmt = S_IFCHR THEN CHRTYPE
    ELSE BLKTYPE

tar_type(path, arcname, cache) ==
    LET fmt == S_IFMT(upper[path].st_mode)
    IN  IF fmt = S_IFREG
        THEN IF is_hardlink(path, arcname, cache) THEN LNKTYPE ELSE REGTYPE
        ELSE special_type(fmt)

\* output.gettarinfo(name=path, arcname=arcname), read with lstat
gettarinfo(path, arcname, cache) ==
    LET st   == upper[path]
        type == tar_type(path, arcname, cache)
    IN  TarInfo(arcname, type, st.st_mode, st.st_uid, st.st_gid, st.st_mtime,
                IF type = REGTYPE THEN Len(st.content) ELSE 0,
                IF type = LNKTYPE
                THEN (CHOOSE e \in cache : e[1] = st.st_ino)[2]
                ELSE IF type = SYMTYPE THEN st.target ELSE "",
                no_headers)

\* output.inodes after gettarinfo: a regular file not taken as a link is cached
inodes_after(path, arcname, cache) ==
    IF tar_type(path, arcname, cache) = REGTYPE
    THEN {e \in cache : e[1] # upper[path].st_ino}
             \cup {<<upper[path].st_ino, arcname>>}
    ELSE cache

\* output.addfile(tinfo, fileobj): the header keeps the low twelve mode bits
addfile(out, tinfo, body) ==
    Append(out, [tinfo EXCEPT !.mode = @ % 4096] @@ "body" :> body)

-----------------------------------------------------------------------------
(* create_layer: one directory                                              *)

dummy_tarinfo(name, original) ==
    TarInfo(name, REGTYPE, original.mode, original.uid, original.gid,
            original.mtime, 0, "", no_headers)

\* if epoch: dir_tinfo.mtime = int(epoch)
dir_mtime(mtime) == IF epoch # None /\ epoch # "" THEN int(epoch) ELSE mtime

\* push_dirs without reversed()
push_dirs_ascending(stk, dir, dirs) ==
    stk \o [i \in 1..Len(dirs) |-> join(dir, sorted(dirs)[i])]

\* stack after "for directory in reversed(sorted(dirs)): stack.append(...)"
push_dirs(stk, dir, dirs) ==
    stk \o [i \in 1..Len(dirs) |-> join(dir, reversed(sorted(dirs))[i])]

\* lower_dir_contents.get(root_rel, [])
old_files(root_rel) ==
    IF root_rel \in DOMAIN lower_dir_contents
    THEN lower_dir_contents[root_rel] ELSE << >>

\* the whiteout entries of one directory, appended to out
RECURSIVE add_whiteouts(_, _, _, _)
add_whiteouts(out, root_rel, olds, present) ==
    IF olds = << >> THEN out
    ELSE IF olds[1] \in present
         THEN add_whiteouts(out, root_rel, Tail(olds), present)
         ELSE LET full_path == join(root_rel, olds[1])
                  old_info  == getmember(lowers[get(lower_files, full_path)],
                                         full_path)
                  new_name  == join(root_rel, ".wh." \o olds[1])
              IN  add_whiteouts(addfile(out, dummy_tarinfo(new_name, old_info), None),
                                root_rel, Tail(olds), present)

\* file_order without sorted()
file_order_as_scanned(scanned) == scanned

\* the order in which the loop handles the files of a directory
file_order(scanned) == sorted(scanned)

\* the while loop ends when nothing is left to visit
after_loop(stk, fs) == IF stk = << >> /\ fs = << >> THEN "done" ELSE "walk"

VisitDir ==
    /\ pc = "walk" /\ files = << >> /\ stack # << >>
    /\ LET dir      == stack[Len(stack)]
           root_rel == relpath(dir)
           info     == gettarinfo(dir, root_rel, inodes)
           dir_tinfo == [info EXCEPT !.mtime = dir_mtime(@)]
       IN  \E scan \in scan_orders(children(dir)) :
             LET dirs == filter(scan, {n \in children(dir) : is_dir(join(dir, n))})
                 fls  == filter(scan, {n \in children(dir) : ~is_dir(join(dir, n))})
             IN  /\ root' = dir
                 /\ stack' = push_dirs(SubSeq(stack, 1, Len(stack) - 1), dir, dirs)
                 /\ output' = add_whiteouts(addfile(output, dir_tinfo, None),
                                            root_rel, old_files(root_rel),
                                            children(dir))
                 /\ files' = file_order(fls)
                 /\ pc' = after_loop(stack', files')
    /\ UNCHANGED <<li, mi, lower_files, lower_dir_contents, inodes, err>>
    /\ input_unchanged

-----------------------------------------------------------------------------
(* create_layer: one file of sorted(files)                                  *)

\* xattr_sha256(path): the decoded xattr, None when the file has none (ENODATA)
xattr_sha256(path) ==
    IF XATTR_SHA256 \in DOMAIN upper[path].xattrs
    THEN decode(upper[path].xattrs[XATTR_SHA256])
    ELSE None

\* upper_checksum with "if checksum is None" in place of "if not checksum"
upper_checksum_is_none(path) ==
    IF xattr_sha256(path) = None
    THEN file_sha256(upper[path].content)
    ELSE xattr_sha256(path)

\* upper_checksum that never reads the xattr
upper_checksum_of_content(path) == file_sha256(upper[path].content)

\* checksum = xattr_sha256(path); if not checksum: checksum = file_sha256(file)
upper_checksum(path) ==
    IF xattr_sha256(path) = None \/ xattr_sha256(path) = ""
    THEN file_sha256(upper[path].content)
    ELSE xattr_sha256(path)

\* the PAX headers of a regular file: the checksum, then getallxattr(path)
file_headers(path) ==
    LET xs == upper[path].xattrs
    IN  [k \in {PAX_HEADER_SHA256} \cup {PAX_HEADER_XATTR \o a : a \in DOMAIN xs} |->
            IF k = PAX_HEADER_SHA256 THEN upper_checksum(path)
            ELSE decode(xs[CHOOSE a \in DOMAIN xs : k = PAX_HEADER_XATTR \o a])]

attr_set(pax_headers) ==
    {<<k, pax_headers[k]>> :
        k \in {h \in DOMAIN pax_headers : startswith(h, PAX_HEADER_XATTR)}}

file == files[1]
path == join(root, file)
rel == join(relpath(root), file)

\* tinfo as it stands at "if rel in lower_files", the epoch aside
tinfo_stat ==
    LET info == gettarinfo(path, rel, inodes)
    IN  [info EXCEPT !.mode = S_IMODE(@),
                     !.pax_headers = IF info.type = REGTYPE
                                     THEN file_headers(path) ELSE @]

\* if epoch is not None: tinfo.mtime = int(epoch)
file_mtime(mtime) == IF epoch # None THEN int(epoch) ELSE mtime

tinfo == [tinfo_stat EXCEPT !.mtime = file_mtime(@)]

lower_found == getmember(lowers[get(lower_files, rel)], rel)

\* same_info after the loop over the attributes and the comparison of attr_set
same_info(a, b) ==
    /\ a.type = b.type /\ a.uid = b.uid /\ a.gid = b.gid
    /\ a.mode = b.mode /\ a.mtime = b.mtime /\ a.size = b.size
    /\ attr_set(a.pax_headers) = attr_set(b.pax_headers)

matched == has_key(lower_files, rel) /\ same_info(tinfo, lower_found)

\* lower_found.pax_headers.get(PAX_HEADER_SHA256)
other_checksum ==
    IF PAX_HEADER_SHA256 \in DOMAIN lower_found.pax_headers
    THEN lower_found.pax_headers[PAX_HEADER_SHA256]
    ELSE None

\* prune_inodes without the clean-up of the inode cache
prune_nothing(cache, arcname) == cache

\* the dict comprehension that drops arcname from output.inodes
prune_inodes(cache, arcname) == {e \in cache : e[2] # arcname}

\* tinfo.linkname == os.readlink(path)
same_link(info, p) == info.linkname = upper[p].target

file_done ==
    /\ files' = Tail(files)
    /\ pc' = after_loop(stack, files')
    /\ UNCHANGED <<li, mi, lower_files, lower_dir_contents, stack, root, err>>
    /\ input_unchanged

file_raises(exception) ==
    /\ pc' = "error" /\ err' = exception
    /\ UNCHANGED <<li, mi, lower_files, lower_dir_contents, stack, root, files,
                   output>>
    /\ input_unchanged

\* int(epoch) raises ValueError
FileEpochError ==
    /\ pc = "walk" /\ files # << >>
    /\ epoch # None /\ int(epoch) < 0
    /\ inodes' = inodes_after(path, rel, inodes)
    /\ file_raises("ValueError")

epoch_ok == epoch = None \/ int(epoch) >= 0

\* a regular file equal to the lower's: dropped from output.inodes and skipped
FileSkipRegular ==
    /\ pc = "walk" /\ files # << >> /\ epoch_ok
    /\ matched /\ tinfo.type = REGTYPE
    /\ other_checksum # None /\ other_checksum # ""
    /\ tinfo.pax_headers[PAX_HEADER_SHA256] = other_checksum
    /\ inodes' = prune_inodes(inodes_after(path, rel, inodes), tinfo.name)
    /\ UNCHANGED output
    /\ file_done

\* the lower member has no checksum header: tar_file.extractfile(None) raises
FileLowerChecksumError ==
    /\ pc = "walk" /\ files # << >> /\ epoch_ok
    /\ matched /\ tinfo.type = REGTYPE
    /\ other_checksum \in {None, ""}
    /\ inodes' = inodes_after(path, rel, inodes)
    /\ file_raises(IF other_checksum = None THEN "AttributeError" ELSE "KeyError")

\* a symlink equal to the lower's on the compared attributes is skipped
FileSkipSymlink ==
    /\ pc = "walk" /\ files # << >> /\ epoch_ok
    /\ matched /\ tinfo.type = SYMTYPE
    /\ same_link(tinfo, path)
    /\ UNCHANGED <<inodes, output>>
    /\ file_done

\* str(path): the upper directory and the components below it
RECURSIVE fspath(_)
fspath(p) == IF p = << >> THEN "upper" ELSE fspath(dirname_of(p)) \o "/" \o basename_of(p)

\* f"{path} unexpected type {tinfo.type}", the type being a bytes object
unexpected_type(p, type) ==
    "RuntimeError: " \o fspath(p) \o " unexpected type b'" \o type \o "'"

\* raise RuntimeError(f"{path} unexpected type {tinfo.type}")
FileUnexpectedType ==
    /\ pc = "walk" /\ files # << >> /\ epoch_ok
    /\ matched /\ tinfo.type \notin {REGTYPE, LNKTYPE, SYMTYPE}
    /\ UNCHANGED inodes
    /\ file_raises(unexpected_type(path, tinfo.type))

\* written with the last branch falling through to the addfile
written_any_type ==
    IF ~matched THEN TRUE
    ELSE IF tinfo.type = SYMTYPE THEN ~same_link(tinfo, path)
    ELSE IF tinfo.type = REGTYPE
         THEN /\ other_checksum # None /\ other_checksum # ""
              /\ tinfo.pax_headers[PAX_HEADER_SHA256] # other_checksum
         ELSE TRUE

\* whether the loop body reaches the addfile at its end
written ==
    IF ~matched THEN TRUE
    ELSE IF tinfo.type = LNKTYPE THEN TRUE
    ELSE IF tinfo.type = SYMTYPE THEN ~same_link(tinfo, path)
    ELSE IF tinfo.type = REGTYPE
         THEN /\ other_checksum # None /\ other_checksum # ""
              /\ tinfo.pax_headers[PAX_HEADER_SHA256] # other_checksum
         ELSE FALSE

FileWrite ==
    /\ pc = "walk" /\ files # << >> /\ epoch_ok
    /\ written
    /\ inodes' = inodes_after(path, rel, inodes)
    /\ output' = addfile(output, tinfo,
                         IF tinfo.type = REGTYPE THEN upper[path].content ELSE None)
    /\ file_done

-----------------------------------------------------------------------------
(* The second run on the same input                                         *)

start_of_run ==
    /\ pc' = "fold"
    /\ li' = first_member(1)[1] /\ mi' = first_member(1)[2]
    /\ lower_files' = << >>
    /\ lower_dir_contents' = [d \in {} |-> << >>]
    /\ stack' = << >> /\ root' = << >> /\ files' = << >>
    /\ inodes' = {} /\ output' = << >> /\ err' = ""

\* create_layer returned; it is called again on the same upper, lowers and epoch
Rerun ==
    /\ pc = "done" /\ run = 1
    /\ run' = 2 /\ prev' = output
    /\ start_of_run
    /\ UNCHANGED <<upper, lowers, epoch>>
    /\ blob_unchanged

-----------------------------------------------------------------------------
(* build_layer after create_layer returned, and Blob.create                  *)

gzip == "gzip"
disabled == "disabled"

\* hashlib.sha256 over data read in chunks: the digest of their concatenation
hexdigest(data) == [sha256 |-> data]

\* what the with-body of build_layer writes into the blob file, chunk by chunk:
\* the gzip member named after the tar's digest, or the tar as it is
body_data ==
    IF compression = gzip
    THEN <<[gzip |-> hexdigest(output)]>> \o [i \in 1..Len(output) |-> [deflate |-> output[i]]]
    ELSE output

media_type ==
    IF compression = gzip THEN "application/vnd.oci.image.layer.v1.tar+gzip"
    ELSE "application/vnd.oci.image.layer.v1.tar"

no_file == [exists |-> FALSE, data |-> << >>]

\* the hashing loop without file.seek(0): it starts at the end of the file
read_from_end(data) == << >>

\* file.seek(0), then file.read until it returns nothing
read_from_start(data) == data

blob_frame ==
    UNCHANGED <<upper, lowers, epoch, run, prev, li, mi, lower_files,
                lower_dir_contents, stack, root, files, inodes, output>>

\* build_layer enters "with blob.create() as file": the temporary file exists
BlobCreate ==
    /\ pc = "done"
    /\ \E c \in {gzip, disabled} : compression' = c
    /\ tmpfile' = [exists |-> TRUE, data |-> << >>]
    /\ blob' = [descriptor |-> None, filename |-> None]
    /\ pc' = "body"
    /\ UNCHANGED <<blobs, cleanup, err>>
    /\ blob_frame

\* shutil.copyfileobj writes the next chunk
BodyWrite ==
    /\ pc = "body" /\ Len(tmpfile.data) < Len(body_data)
    /\ tmpfile' = [tmpfile EXCEPT !.data = Append(@, body_data[Len(@) + 1])]
    /\ UNCHANGED <<pc, compression, blobs, blob, cleanup, err>>
    /\ blob_frame

\* the with-body raises, at any point: the generator is resumed with the
\* exception at its yield, inside the try
BodyRaises ==
    /\ pc = "body"
    /\ pc' = "except" /\ err' = "OSError in the body"
    /\ UNCHANGED <<compression, tmpfile, blobs, blob, cleanup>>
    /\ blob_frame

\* the with-body ends: the generator goes on after the yield
BodyReturns ==
    /\ pc = "body" /\ Len(tmpfile.data) = Len(body_data)
    /\ pc' = "describe"
    /\ UNCHANGED <<compression, tmpfile, blobs, blob, cleanup, err>>
    /\ blob_frame

\* lines 47-60: the descriptor with mediaType, size and digest
Describe ==
    /\ pc = "describe"
    /\ blob' = [blob EXCEPT !.descriptor =
                   [mediaType |-> media_type,
                    size |-> Len(tmpfile.data),
                    digest |-> <<"sha256:", hexdigest(read_from_start(tmpfile.data))>>]]
    /\ pc' = "promote"
    /\ UNCHANGED <<compression, tmpfile, blobs, cleanup, err>>
    /\ blob_frame

\* file.seek, file.tell or file.read raises: the descriptor is left half filled
DescribeRaises ==
    /\ pc = "describe"
    /\ \E d \in {[mediaType |-> media_type],
                  [mediaType |-> media_type, size |-> Len(tmpfile.data)]} :
          blob' = [blob EXCEPT !.descriptor = d]
    /\ pc' = "except" /\ err' = "OSError in the hashing"
    /\ UNCHANGED <<compression, tmpfile, blobs, cleanup>>
    /\ blob_frame

\* lines 61-68: os.rename moves the temporary file to blobs/sha256/<hexdigest>
Promote ==
    /\ pc = "promote"
    /\ LET name == blob.descriptor.digest[2]
       IN  /\ blobs' = {b \in blobs : b.name # name}
                          \cup {[name |-> name, data |-> tmpfile.data]}
           /\ blob' = [blob EXCEPT !.filename = name]
    /\ tmpfile' = no_file
    /\ pc' = "created"
    /\ UNCHANGED <<compression, cleanup, err>>
    /\ blob_frame

\* os.makedirs raises, or os.rename does after self.filename was set
PromoteRaises ==
    /\ pc = "promote"
    /\ \/ /\ err' = "OSError in makedirs" /\ UNCHANGED blob
       \/ /\ err' = "OSError in rename"
          /\ blob' = [blob EXCEPT !.filename = blob.descriptor.digest[2]]
    /\ pc' = "except"
    /\ UNCHANGED <<compression, tmpfile, blobs, cleanup>>
    /\ blob_frame

\* the handler: os.unlink(filename), its failure passed over, then raise
Cleanup ==
    /\ pc = "except"
    /\ \/ tmpfile' = no_file /\ cleanup' = "removed"
       \/ UNCHANGED tmpfile /\ cleanup' = "unlink failed"
    /\ pc' = "error"
    /\ UNCHANGED <<compression, blobs, blob, err>>
    /\ blob_frame

-----------------------------------------------------------------------------
(* The inputs: bounded upper trees, lower stacks and epochs                 *)

MaxId == 1          \* uid and gid range over 0..MaxId
MaxTime == 1        \* mtimes and epochs range over 0..MaxTime
MaxLowers == 2      \* lower tars in a stack
MaxMembers == 3     \* members in a lower stack
MaxDepth == 2       \* depth of the upper trees
MaxLinks == 2       \* paths of the upper tree that share an inode

Ids == 0..MaxId
Times == 0..MaxTime
Contents == {"x", "y"}

stat(mode, uid, gid, mtime, ino, content, target, xattrs) ==
    [st_mode |-> mode, st_uid |-> uid, st_gid |-> gid, st_mtime |-> mtime,
     st_ino |-> ino, content |-> content, target |-> target, xattrs |-> xattrs]

no_xattrs == [a \in {} |-> Bytes("")]
one_xattr(a, v) == [k \in {a} |-> Bytes(v)]

\* an inode number for each path of a tree without hard links
RECURSIVE ino_of(_)
ino_of(p) == IF p = << >> THEN 1 ELSE ino_of(dirname_of(p)) * 16 + ord(basename_of(p))

dir_node(p) == stat(S_IFDIR + 493, 0, 0, 0, ino_of(p), "", "", no_xattrs)
reg_node(p) == stat(S_IFREG + 420, 0, 0, 0, ino_of(p), "x", "", no_xattrs)

\* the nodes that differ from a plain regular file in one respect
UpperNodes(p) ==
    LET n == reg_node(p)
    IN  {[n EXCEPT !.content = c] : c \in Contents}
        \cup {[n EXCEPT !.st_uid = u] : u \in Ids}
        \cup {[n EXCEPT !.st_gid = g] : g \in Ids}
        \cup {[n EXCEPT !.st_mtime = t] : t \in Times}
        \cup {[n EXCEPT !.st_mode = S_IFREG + 493]}
        \cup {[n EXCEPT !.xattrs = one_xattr("user.k", "v")]}
        \cup {[n EXCEPT !.xattrs = one_xattr(XATTR_SHA256, v)] :
                 v \in {"", file_sha256("x"), file_sha256("y")}}
        \cup {[n EXCEPT !.st_mode = S_IFLNK + 511, !.content = "", !.target = t] :
                 t \in Contents}
        \cup {[n EXCEPT !.st_mode = fmt + 420, !.content = ""] :
                 fmt \in {S_IFIFO, S_IFCHR, S_IFBLK}}

\* the member a build without epoch writes for node n under the name given
exact(name, n) ==
    LET fmt == S_IFMT(n.st_mode)
        type == IF fmt = S_IFREG THEN REGTYPE ELSE special_type(fmt)
        hdrs == IF type # REGTYPE THEN no_headers
                ELSE [k \in {PAX_HEADER_SHA256}
                            \cup {PAX_HEADER_XATTR \o a : a \in DOMAIN n.xattrs} |->
                        IF k = PAX_HEADER_SHA256
                        THEN IF XATTR_SHA256 \in DOMAIN n.xattrs
                                  /\ decode(n.xattrs[XATTR_SHA256]) # ""
                             THEN decode(n.xattrs[XATTR_SHA256])
                             ELSE file_sha256(n.content)
                        ELSE decode(n.xattrs[CHOOSE a \in DOMAIN n.xattrs :
                                                 k = PAX_HEADER_XATTR \o a])]
    IN  TarInfo(name, type, S_IMODE(n.st_mode), n.st_uid, n.st_gid, n.st_mtime,
                IF type = REGTYPE THEN Len(n.content) ELSE 0,
                IF type = SYMTYPE THEN n.target ELSE "", hdrs)
        @@ "body" :> (IF type = REGTYPE THEN n.content ELSE None)

\* headers with key k set to v
with_header(h, k, v) == [j \in DOMAIN h \cup {k} |-> IF j = k THEN v ELSE h[j]]
without_header(h, k) == [j \in DOMAIN h \ {k} |-> h[j]]

\* the members that differ from m in one respect
LowerMembers(m) ==
    {[m EXCEPT !.name = nm] : nm \in {<<".", "a">>, <<"a">>}}
    \cup {[m EXCEPT !.type = t] : t \in {REGTYPE, LNKTYPE, SYMTYPE, FIFOTYPE, CHRTYPE}}
    \cup {[m EXCEPT !.uid = u] : u \in Ids}
    \cup {[m EXCEPT !.gid = g] : g \in Ids}
    \cup {[m EXCEPT !.mtime = t] : t \in Times}
    \cup {[m EXCEPT !.mode = md] : md \in {420, 493, S_IFREG + 420}}
    \cup {[m EXCEPT !.size = sz] : sz \in 0..1}
    \cup {[m EXCEPT !.linkname = t] : t \in Contents}
    \cup {[m EXCEPT !.pax_headers = with_header(@, PAX_HEADER_SHA256, v)] :
             v \in {"", file_sha256("x"), file_sha256("y")}}
    \cup {[m EXCEPT !.pax_headers = without_header(@, PAX_HEADER_SHA256)]}
    \cup {[m EXCEPT !.pax_headers = with_header(@, PAX_HEADER_XATTR \o "user.k", "v")]}

Epochs == {None, ""} \cup {Digits[t + 1] : t \in Times}

tree(nodes) == [p \in {<< >>} \cup DOMAIN nodes |->
                   IF p = << >> THEN dir_node(p) ELSE nodes[p]]

input(u, l, e) == [upper |-> u, lowers |-> l, epoch |-> e]

\* one entry "a" at the top of the upper, and at most one lower member for it
InputsOneFile ==
    UNION {{input(tree([p \in {<<"a">>} |-> n]), l, e) :
               l \in {<< >>} \cup {<<<<m>>>> : m \in LowerMembers(exact(<<".", "a">>, n))},
               e \in Epochs} : n \in UpperNodes(<<"a">>)}
    \cup
    {input(tree([p \in {} |-> 0]), <<<<m>>>>, e) :
        m \in LowerMembers(exact(<<".", "a">>, reg_node(<<"a">>))),
        e \in Epochs}

\* MaxLinks names at the top of the upper that share one inode; the lower tar
\* holds the root and, for each name, nothing, the member a build wrote for
\* it as a file (with the right or another checksum) or as a link to the first
LinkNames == SubSeq(<<"a", "b", "c", "d">>, 1, MaxLinks)

link_node == [reg_node(<<"a">>) EXCEPT !.st_ino = 2]

LinkMembers(nm) ==
    LET m == exact(<<".", nm>>, link_node)
    IN  {<< >>, <<m>>,
         <<[m EXCEPT !.pax_headers = with_header(@, PAX_HEADER_SHA256, file_sha256("y"))]>>,
         <<[m EXCEPT !.type = LNKTYPE, !.size = 0, !.linkname = <<".", LinkNames[1]>>,
                     !.pax_headers = no_headers, !.body = None]>>}

RECURSIVE LinkTars(_)
LinkTars(i) ==
    IF i > MaxLinks THEN {<< >>}
    ELSE {ms \o rest : ms \in LinkMembers(LinkNames[i]), rest \in LinkTars(i + 1)}

InputsLinks ==
    {input(tree([p \in {<<LinkNames[i]>> : i \in 1..MaxLinks} |-> link_node]),
           <<<<exact(<<".">>, dir_node(<< >>))>> \o l>>, e) :
        l \in LinkTars(1), e \in {None, "0"}}

\* a fifo or a device "a" next to a regular file "b"; the lower tar holds
\* nothing or the member a build wrote for "a"
InputsSpecial ==
    UNION {{input(tree([p \in {<<"a">>, <<"b">>} |->
                          IF p = <<"a">>
                          THEN [reg_node(p) EXCEPT !.st_mode = fmt + 420, !.content = ""]
                          ELSE reg_node(p)]),
                  l, e) :
               l \in {<< >>,
                      <<<<exact(<<".", "a">>,
                                [reg_node(<<"a">>) EXCEPT !.st_mode = fmt + 420,
                                                         !.content = ""])>>>>},
               e \in {None, "0"}} :
           fmt \in {S_IFIFO, S_IFCHR, S_IFBLK}}

\* the trees of depth MaxDepth, each path a directory or a file: two names
\* on the two levels below the root, one name on the levels below those
WalkNames == {"a", "b"}

\* the subtrees that may hang at path p: nothing, a file, or a directory
\* whose entries are subtrees in turn, down to depth MaxDepth
merge(f, g) == [q \in DOMAIN f \cup DOMAIN g |-> IF q \in DOMAIN f THEN f[q] ELSE g[q]]

RECURSIVE Subtrees(_)
RECURSIVE Forests(_, _)
Subtrees(p) ==
    {[q \in {} |-> 0], [q \in {p} |-> reg_node(p)]}
    \cup (IF Len(p) < MaxDepth
          THEN {merge([q \in {p} |-> dir_node(p)], f) :
                   f \in Forests(p, IF Len(p) < 2 THEN WalkNames ELSE {"a"})}
          ELSE {[q \in {p} |-> dir_node(p)]})
Forests(p, names) ==
    IF names = {} THEN {[q \in {} |-> 0]}
    ELSE LET n == CHOOSE n \in names : TRUE
         IN  {merge(t, f) : t \in Subtrees(Append(p, n)), f \in Forests(p, names \ {n})}

WalkTrees == Forests(<< >>, WalkNames)

InputsWalk == {input(tree(t), << >>, None) : t \in WalkTrees}

\* the lower stacks of at most MaxLowers tars that hold at most MaxMembers members
\* between them, over names with and without whiteout prefixes
FoldNames ==
    {<<"a">>, <<"d">>, <<"d", "a">>,
     <<".wh.a">>, <<".wh.d">>,
     <<".wh..wh..opq">>, <<"d", ".wh..wh..opq">>}

fold_member(nm) ==
    IF nm = <<"d">> THEN exact(nm, dir_node(nm))
    ELSE IF startswith(basename_of(nm), ".wh.")
         THEN [exact(nm, reg_node(<<"a">>)) EXCEPT !.size = 0,
                                                   !.pax_headers = no_headers,
                                                   !.body = ""]
         ELSE exact(nm, reg_node(<<"a">>))

RECURSIVE seqs_upto(_, _)
seqs_upto(S, n) ==
    IF n = 0 THEN {<< >>}
    ELSE seqs_upto(S, n - 1)
         \cup {Append(q, x) : q \in {r \in seqs_upto(S, n - 1) : Len(r) = n - 1},
                              x \in S}

\* the ways to cut the members ms into at most k tars, none of them empty
RECURSIVE cuts(_, _)
cuts(ms, k) ==
    IF ms = << >> THEN {<< >>}
    ELSE IF k = 1 THEN {<<ms>>}
    ELSE UNION {{<<SubSeq(ms, 1, i)>> \o rest :
                    rest \in cuts(SubSeq(ms, i + 1, Len(ms)), k - 1)} :
                i \in 1..Len(ms)}

\* the stacks that hold the members ms: the cuts, and an empty tar under ms
stacks(ms) == cuts(ms, MaxLowers) \cup {<<<< >>, ms>>}

FoldMembers == seqs_upto({fold_member(nm) : nm \in FoldNames}, MaxMembers)

FoldUppers ==
    {tree([p \in {} |-> 0]),
     tree([p \in {<<"a">>, <<"d">>, <<"d", "a">>} |->
              IF p = <<"d">> THEN dir_node(p) ELSE reg_node(p)])}

-----------------------------------------------------------------------------
(* The specification                                                        *)

\* the input of a run: one of the trees, stacks and epochs above
is_input ==
    \/ \E i \in InputsOneFile \cup InputsLinks \cup InputsSpecial \cup InputsWalk :
          upper = i.upper /\ lowers = i.lowers /\ epoch = i.epoch
    \/ \E u \in FoldUppers, ms \in FoldMembers :
          \E l \in stacks(ms) :
              upper = u /\ lowers = l /\ epoch = None

Init ==
    /\ is_input
    /\ pc = "fold"
    /\ li = first_member(1)[1] /\ mi = first_member(1)[2]
    /\ lower_files = << >>
    /\ lower_dir_contents = [d \in {} |-> << >>]
    /\ stack = << >> /\ root = << >> /\ files = << >>
    /\ inodes = {} /\ output = << >> /\ err = ""
    /\ run = 1 /\ prev = << >>
    /\ compression = None /\ tmpfile = no_file /\ blobs = {}
    /\ blob = [descriptor |-> None, filename |-> None]
    /\ cleanup = ""

Next ==
    \/ FoldOpaque
    \/ FoldWhiteout
    \/ FoldWhiteoutMissing
    \/ FoldMember
    \/ AnalyzeDone
    \/ VisitDir
    \/ FileEpochError
    \/ FileSkipRegular
    \/ FileLowerChecksumError
    \/ FileSkipSymlink
    \/ FileUnexpectedType
    \/ FileWrite
    \/ Rerun

Spec == Init /\ [][Next]_vars

-----------------------------------------------------------------------------
(* build_layer from the return of create_layer on: the tar that create_layer *)
(* wrote is any stream of at most MaxChunks entries                         *)

MaxChunks == 2      \* entries in the tar that build_layer copies into the blob

TarStreams ==
    seqs_upto({exact(<<".">>, dir_node(<< >>)),
               exact(<<".", "a">>, reg_node(<<"a">>)),
               exact(<<".", "b">>, [reg_node(<<"b">>) EXCEPT !.content = "y"])},
              MaxChunks)

BlobInit ==
    /\ output \in TarStreams
    /\ pc = "done"
    /\ upper = tree([p \in {} |-> 0]) /\ lowers = << >> /\ epoch = None
    /\ li = 1 /\ mi = 1
    /\ lower_files = << >>
    /\ lower_dir_contents = [d \in {} |-> << >>]
    /\ stack = << >> /\ root = << >> /\ files = << >>
    /\ inodes = {} /\ err = ""
    /\ run = 1 /\ prev = << >>
    /\ compression = None /\ tmpfile = no_file /\ blobs = {}
    /\ blob = [descriptor |-> None, filename |-> None]
    /\ cleanup = ""

BlobNext ==
    \/ BlobCreate
    \/ BodyWrite
    \/ BodyRaises
    \/ BodyReturns
    \/ Describe
    \/ DescribeRaises
    \/ Promote
    \/ PromoteRaises
    \/ Cleanup

BlobSpec == BlobInit /\ [][BlobNext]_vars

-----------------------------------------------------------------------------
(* What the claims speak of: paths as a reader of the tars sees them, and   *)
(* the tree a stack of layers unpacks to under the OCI whiteout rules       *)

\* the path a tar name denotes: "./a" and "a" are the path a, "." is the root
RECURSIVE norm(_)
norm(name) ==
    IF name = << >> THEN << >>
    ELSE IF name[1] = "." THEN norm(Tail(name))
         ELSE <<name[1]>> \o norm(Tail(name))

\* p lies strictly beneath directory d
beneath(p, d) == Len(p) > Len(d) /\ SubSeq(p, 1, Len(d)) = d

entries == Range(output)
names_written == {norm(e.name) : e \in entries}

\* the paths of the folded lower view
lower_view == {norm(k) : k \in Range(keys(lower_files))}

-----------------------------------------------------------------------------
(* C4.  While the lowers are folded, a ".wh.<name>" member whose target is  *)
(* not in the accumulated view is a no-op: no error is raised, lower_files  *)
(* is left as it is and the fold goes on with the next member.              *)
(* The code deletes the key with "del", which raises KeyError.              *)

C4_AbsentTarget ==
    /\ pc = "fold" /\ more_members
    /\ is_whiteout(member.name)
    /\ ~has_key(lower_files, whiteout_target(member.name))

C4_WhiteoutOfAbsentPathIsNoop ==
    [][C4_AbsentTarget =>
          /\ pc' = "fold" /\ err' = ""
          /\ lower_files' = lower_files
          /\ <<li', mi'>> = next_member]_vars

-----------------------------------------------------------------------------
(* C8.  When the fold handles a ".wh..wh..opq" member in directory d, the   *)
(* root included, no path beneath d that earlier members contributed is     *)
(* left in the lower view.                                                  *)
(* For the root the code tests the prefix "/", which no name has.           *)

C8_OpaqueMember ==
    /\ pc = "fold" /\ more_members
    /\ basename_of(member.name) = ".wh..wh..opq"

C8_OpaqueRemovesEverythingBeneath ==
    [][C8_OpaqueMember =>
          \A k \in Range(keys(lower_files')) :
              ~beneath(norm(k), norm(dirname_of(member.name)))]_vars

-----------------------------------------------------------------------------
(* Unpacking: what a reader of the layers sees                              *)

\* what a tree holds at a path: the attributes the round trip speaks of
seen(type, mode, uid, gid, linkname, xattrs, content) ==
    [type |-> type, mode |-> mode, uid |-> uid, gid |-> gid,
     linkname |-> linkname, xattrs |-> xattrs, content |-> content]

seen_entry(e) ==
    seen(e.type, e.mode % 4096, e.uid, e.gid,
         IF e.type = SYMTYPE THEN e.linkname ELSE "",
         attr_set(e.pax_headers),
         IF e.type = REGTYPE THEN e.body ELSE None)

seen_upper(p) ==
    LET st == upper[p]
        type == tar_type(p, << >>, {})
    IN  seen(type, S_IMODE(st.st_mode), st.st_uid, st.st_gid,
             IF type = SYMTYPE THEN st.target ELSE "",
             {<<PAX_HEADER_XATTR \o a, decode(st.xattrs[a])>> : a \in DOMAIN st.xattrs},
             IF type = REGTYPE THEN st.content ELSE None)

remove(fs, gone) == [p \in DOMAIN fs \ gone |-> fs[p]]
put(fs, p, v) == [q \in DOMAIN fs \cup {p} |-> IF q = p THEN v ELSE fs[q]]

\* one tar entry applied to the tree fs
unpack_entry(fs, e) ==
    LET p    == norm(e.name)
        dir  == norm(dirname_of(e.name))
        base == basename_of(e.name)
    IN  IF base = ".wh..wh..opq"
        THEN remove(fs, {q \in DOMAIN fs : beneath(q, dir)})
        ELSE IF startswith(base, ".wh.")
        THEN LET target == Append(dir, strfrom(base, 4))
             IN  remove(fs, {q \in DOMAIN fs : q = target \/ beneath(q, target)})
        ELSE IF e.type = DIRTYPE
        THEN put(fs, p, seen_entry(e))
        ELSE IF e.type = LNKTYPE /\ norm(e.linkname) \in DOMAIN fs
        THEN put(remove(fs, {q \in DOMAIN fs : beneath(q, p)}), p,
                 fs[norm(e.linkname)])
        ELSE put(remove(fs, {q \in DOMAIN fs : beneath(q, p)}), p, seen_entry(e))

RECURSIVE unpack(_, _)
unpack(fs, tar) ==
    IF tar = << >> THEN fs ELSE unpack(unpack_entry(fs, tar[1]), Tail(tar))

RECURSIVE unpack_all(_, _)
unpack_all(fs, tars) ==
    IF tars = << >> THEN fs ELSE unpack_all(unpack(fs, tars[1]), Tail(tars))

empty_tree == [p \in {} |-> 0]

\* the lower stack with the new layer on top
unpacked == unpack(unpack_all(empty_tree, lowers), output)

-----------------------------------------------------------------------------
(* C1.  Round trip: the lower stack with the layer create_layer wrote on    *)
(* top of it unpacks to the upper tree: the same paths and, at each path,   *)
(* the same type, mode, owner, link target, xattrs and content.             *)
(* A path at the top of the lower whose name has no "./" in front, or a     *)
(* directory at the top, gets no whiteout and so stays in the unpacked tree.*)

C1_RoundTrip ==
    pc = "done" =>
        /\ DOMAIN unpacked = DOMAIN upper
        /\ \A p \in DOMAIN upper : unpacked[p] = seen_upper(p)

-----------------------------------------------------------------------------
(* C2.  After create_layer returned, every path of the folded lower view    *)
(* that the upper tree does not hold (and whose directory it does hold) has *)
(* either an entry of its own or a ".wh." sibling in the output, not both   *)
(* and not neither.                                                         *)
(* The whiteouts of the root are looked up under the key ".", and only a    *)
(* lower name written "./<name>" is filed there.                            *)

has_whiteout(p) ==
    Append(dirname_of(p), ".wh." \o basename_of(p)) \in names_written

C2_Missing ==
    {p \in lower_view : p # << >> /\ p \notin DOMAIN upper
                                  /\ dirname_of(p) \in DOMAIN upper}

C2_WhiteoutCoverage ==
    pc = "done" =>
        \A p \in C2_Missing : (p \in names_written) # has_whiteout(p)

-----------------------------------------------------------------------------
(* C3.  A path that is not a directory, that the upper and the folded lower *)
(* view both hold and whose type, uid, gid, mode, mtime, size, xattr        *)
(* headers and content are those of the lower member, gets no entry.        *)
(* A lower name without "./" in front is never looked up, and an unchanged  *)
(* hard link falls through to the write at the end of the loop.             *)

\* the lower member of the view that stands for path p, each under its key
lower_members(p) ==
    {getmember(lowers[get(lower_files, k)], k) :
        k \in {j \in Range(keys(lower_files)) : norm(j) = p}}

\* the entry for path p of the upper is the lower member m in every respect
C3_Unchanged(p, m) ==
    LET st   == upper[p]
        type == tar_type(p, << >>, {})
    IN  /\ \/ type = m.type
           \/ type = REGTYPE /\ m.type = LNKTYPE /\ st_nlink(p) > 1
                 /\ \E q \in DOMAIN upper : q # p /\ upper[q].st_ino = st.st_ino
                                                 /\ norm(m.linkname) = q
        /\ st.st_uid = m.uid /\ st.st_gid = m.gid
        /\ S_IMODE(st.st_mode) = m.mode
        /\ file_mtime(st.st_mtime) = m.mtime
        /\ m.size = (IF m.type = REGTYPE THEN Len(st.content) ELSE 0)
        /\ m.type = SYMTYPE => m.linkname = st.target
        /\ m.type = REGTYPE =>
              /\ m.body = st.content
              /\ PAX_HEADER_SHA256 \in DOMAIN m.pax_headers
              /\ m.pax_headers[PAX_HEADER_SHA256] = file_sha256(st.content)
              /\ attr_set(m.pax_headers) =
                    {<<PAX_HEADER_XATTR \o a, decode(st.xattrs[a])>> :
                        a \in DOMAIN st.xattrs}
              /\ XATTR_SHA256 \in DOMAIN st.xattrs =>
                    decode(st.xattrs[XATTR_SHA256]) = file_sha256(st.content)
        /\ m.type # REGTYPE => attr_set(m.pax_headers) = {}

C3_UnchangedIsElided ==
    pc = "done" /\ epoch_ok =>
        \A p \in DOMAIN upper :
            ~is_dir(p) =>
                \A m \in lower_members(p) :
                    C3_Unchanged(p, m) => p \notin names_written

-----------------------------------------------------------------------------
(* C5.  With SOURCE_DATE_EPOCH set to the integer E, every entry of the     *)
(* output has mtime E.                                                      *)
(* A whiteout entry keeps the mtime of the lower member it stands for.      *)

C5_EveryMtimeIsEpoch ==
    epoch # None /\ int(epoch) >= 0 =>
        \A e \in entries : e.mtime = int(epoch)

-----------------------------------------------------------------------------
(* C6.  Every regular-file entry of the output carries the header           *)
(* freedesktopsdk.checksum.sha256, and its value is the SHA-256 of the body *)
(* written for the entry.                                                   *)
(* As stated it fails twice: a whiteout entry is a regular-file entry with  *)
(* no header at all, and a file with a user.checksum.sha256 xattr gets the  *)
(* xattr's value, whatever its content is.                                  *)

C6_ChecksumIsDigestOfBody ==
    \A e \in entries :
        e.type = REGTYPE =>
            /\ PAX_HEADER_SHA256 \in DOMAIN e.pax_headers
            /\ e.pax_headers[PAX_HEADER_SHA256] = file_sha256(e.body)

(* C6, amended.  Every regular-file entry written for a file of the upper   *)
(* tree carries the header; its value is the file's user.checksum.sha256    *)
(* xattr when the file has one that is not empty, and the SHA-256 of the    *)
(* body written for the entry otherwise.  A whiteout entry has no body and  *)
(* no checksum header.                                                      *)

C6_ChecksumHeader ==
    \A e \in entries :
        e.type = REGTYPE =>
            IF e.body = None
            THEN /\ PAX_HEADER_SHA256 \notin DOMAIN e.pax_headers
                 /\ startswith(basename_of(e.name), ".wh.")
            ELSE LET xs == upper[norm(e.name)].xattrs
                 IN  /\ PAX_HEADER_SHA256 \in DOMAIN e.pax_headers
                     /\ e.body = upper[norm(e.name)].content
                     /\ e.pax_headers[PAX_HEADER_SHA256] =
                           IF XATTR_SHA256 \in DOMAIN xs /\ xs[XATTR_SHA256] # Bytes("")
                           THEN xs[XATTR_SHA256].bytes
                           ELSE file_sha256(e.body)

\* a file was written whose xattr does not match its content
C6_Witness ==
    /\ pc = "done"
    /\ \E e \in entries :
          /\ e.type = REGTYPE /\ e.body = "x"
          /\ upper[norm(e.name)].xattrs = one_xattr(XATTR_SHA256, file_sha256("y"))
          /\ e.pax_headers[PAX_HEADER_SHA256] = file_sha256("y")

-----------------------------------------------------------------------------
(* C7.  No dangling hard link: every LNKTYPE entry of the output names, as  *)
(* its linkname, an entry written before it; a path that shares its inode   *)
(* with a path skipped as unchanged is not written as a link to that path.  *)

C7_NoDanglingHardLink ==
    \A i \in 1..Len(output) :
        output[i].type = LNKTYPE =>
            \E j \in 1..(i - 1) :
                /\ output[j].name = output[i].linkname
                /\ output[j].type = REGTYPE

\* the first path of an inode was skipped and the second written in full
C7_Witness ==
    /\ pc = "done"
    /\ \E p, q \in DOMAIN upper :
          /\ p # q /\ upper[p].st_ino = upper[q].st_ino
          /\ p \notin names_written
          /\ \E e \in entries : norm(e.name) = q /\ e.type = REGTYPE

-----------------------------------------------------------------------------
(* C9.  Output order: the directory headers come in depth-first pre-order   *)
(* with the subdirectories of a directory in ascending order of name, each  *)
(* directory once; the header of a directory precedes every entry inside    *)
(* it; the files of a directory are written in ascending order of name.     *)

\* the least name of a set, and the names in ascending order
least(S) == CHOOSE n \in S : \A m \in S : m = n \/ strless(n, m)

RECURSIVE ascending(_)
ascending(S) == IF S = {} THEN << >> ELSE <<least(S)>> \o ascending(S \ {least(S)})

RECURSIVE preorder(_)
RECURSIVE preorder_each(_, _)
preorder(dir) ==
    <<dir>> \o preorder_each(dir, ascending({n \in children(dir) : is_dir(join(dir, n))}))
preorder_each(dir, subdirs) ==
    IF subdirs = << >> THEN << >>
    ELSE preorder(join(dir, subdirs[1])) \o preorder_each(dir, Tail(subdirs))

\* the directories whose header is in the output, in the order written
RECURSIVE headers(_)
headers(out) ==
    IF out = << >> THEN << >>
    ELSE IF out[1].type = DIRTYPE THEN <<norm(out[1].name)>> \o headers(Tail(out))
         ELSE headers(Tail(out))

is_prefix(s, t) == Len(s) <= Len(t) /\ SubSeq(t, 1, Len(s)) = s

C9_OutputOrder ==
    /\ is_prefix(headers(output), preorder(<< >>))
    /\ pc = "done" => headers(output) = preorder(<< >>)
    /\ \A i \in 1..Len(output) :
          norm(output[i].name) # << >> =>
              \E j \in 1..(i - 1) :
                  /\ output[j].type = DIRTYPE
                  /\ norm(output[j].name) = dirname_of(norm(output[i].name))
    /\ \A i, j \in 1..Len(output) :
          /\ i < j
          /\ output[i].type # DIRTYPE /\ output[j].type # DIRTYPE
          /\ norm(output[i].name) \in DOMAIN upper
          /\ norm(output[j].name) \in DOMAIN upper
          /\ dirname_of(output[i].name) = dirname_of(output[j].name)
          => strless(basename_of(output[i].name), basename_of(output[j].name))

\* a directory with a subdirectory was walked before its sibling
C9_Witness ==
    /\ pc = "done"
    /\ {<<"a">>, <<"a", "b">>, <<"b">>, <<"b", "a">>} \subseteq DOMAIN upper
    /\ is_dir(<<"a", "b">>) /\ is_dir(<<"b">>) /\ ~is_dir(<<"b", "a">>)
    /\ Len(output) >= 5

-----------------------------------------------------------------------------
(* C10.  Determinism: a second run of create_layer on the same upper tree,  *)
(* lower stack and epoch writes the entries the first run wrote, whatever   *)
(* the order in which the directory scans yield the names.                  *)

C10_SameOutput ==
    /\ run = 2 /\ pc # "error" => is_prefix(output, prev)
    /\ run = 2 /\ pc = "done" => output = prev

\* the second run is over, on a tree whose root holds two files
C10_Witness ==
    /\ run = 2 /\ pc = "done"
    /\ Cardinality({n \in children(<< >>) : ~is_dir(<<n>>)}) >= 2
    /\ Len(output) >= 3

-----------------------------------------------------------------------------
(* C11.  Checksum source: for every regular file of the upper, the value    *)
(* used as its checksum, in the PAX header of the entry written and in the  *)
(* comparison with the lower member, is the file's user.checksum.sha256     *)
(* xattr when the xattr is present, whatever the content is, and the        *)
(* SHA-256 of the content only when the xattr is absent.                    *)
(* The code tests "if not checksum", so an xattr that is present and empty  *)
(* is passed over for the SHA-256 of the content.                           *)

\* the loop is about to handle a regular file of the upper
C11_AtRegularFile ==
    /\ pc = "walk" /\ files # << >> /\ epoch_ok
    /\ tar_type(path, rel, inodes) = REGTYPE

\* the step wrote the file with checksum header v, or skipped it because v
\* is the checksum of the lower member
C11_Used(v) ==
    /\ pc' # "error"
    /\ IF Len(output') = Len(output) + 1
       THEN output'[Len(output')].pax_headers[PAX_HEADER_SHA256] = v
       ELSE output' = output /\ other_checksum = v

C11_ChecksumIsXattrWhenPresent ==
    [][C11_AtRegularFile /\ pc' # "error" =>
          C11_Used(IF XATTR_SHA256 \in DOMAIN upper[path].xattrs
                   THEN upper[path].xattrs[XATTR_SHA256].bytes
                   ELSE file_sha256(upper[path].content))]_vars

(* C11, amended.  The value is the xattr when the xattr is present and not  *)
(* empty, whatever the content is, and the SHA-256 of the content when the  *)
(* xattr is absent or empty.                                                *)

C11_ChecksumSource ==
    [][C11_AtRegularFile /\ pc' # "error" =>
          C11_Used(IF /\ XATTR_SHA256 \in DOMAIN upper[path].xattrs
                      /\ upper[path].xattrs[XATTR_SHA256].bytes # ""
                   THEN upper[path].xattrs[XATTR_SHA256].bytes
                   ELSE file_sha256(upper[path].content))]_vars

\* a file whose xattr is not the digest of its content was skipped, the
\* lower member carrying the xattr's value
C11_Witness ==
    /\ pc = "done"
    /\ <<"a">> \in DOMAIN upper /\ <<"a">> \notin names_written
    /\ upper[<<"a">>].content = "x"
    /\ upper[<<"a">>].xattrs = one_xattr(XATTR_SHA256, file_sha256("y"))
    /\ has_key(lower_files, <<".", "a">>)
    /\ getmember(lowers[get(lower_files, <<".", "a">>)],
                 <<".", "a">>).pax_headers[PAX_HEADER_SHA256] = file_sha256("y")

-----------------------------------------------------------------------------
(* C12.  Symlink elision: a symlink of the upper whose path is in the lower *)
(* view is skipped only if the lower member at that path is a symlink with  *)
(* the same target (and the same uid, gid, mode, mtime and xattr headers);  *)
(* a symlink whose target is not the lower member's linkname is written.    *)
(* The code compares tinfo.linkname, which gettarinfo read from the upper,  *)
(* with os.readlink of the same path, never with lower_found.linkname.      *)

C12_SymlinkElision ==
    pc = "done" =>
        \A p \in DOMAIN upper :
            tar_type(p, << >>, {}) = SYMTYPE =>
                /\ p \notin names_written =>
                      \E m \in lower_members(p) :
                          /\ m.type = SYMTYPE /\ m.linkname = upper[p].target
                          /\ m.uid = upper[p].st_uid /\ m.gid = upper[p].st_gid
                          /\ m.mode = S_IMODE(upper[p].st_mode)
                          /\ m.mtime = file_mtime(upper[p].st_mtime)
                /\ \A m \in lower_members(p) :
                      m.linkname # upper[p].target => p \in names_written

-----------------------------------------------------------------------------
(* C13.  Hard-link elision: when the entry for a file of the upper is a     *)
(* hard link (LNKTYPE) whose path is in the lower view and whose type, uid, *)
(* gid, mode, mtime, size and xattr headers are the lower member's,         *)
(* create_layer writes no entry for that path.                              *)
(* The LNKTYPE branch is "pass": control falls through to the addfile at    *)
(* the end of the loop body and the link is written.                        *)

C13_MatchedHardLink ==
    /\ pc = "walk" /\ files # << >> /\ epoch_ok
    /\ tinfo.type = LNKTYPE
    /\ matched

C13_HardLinkElision ==
    [][C13_MatchedHardLink => output' = output /\ pc' # "error"]_vars

-----------------------------------------------------------------------------
(* C14.  Checksum fallback on the lower side: when a regular file of the    *)
(* upper matches the lower member on type, uid, gid, mode, mtime, size and  *)
(* xattr headers and the lower member has no freedesktopsdk.checksum.sha256 *)
(* header, create_layer hashes the lower member's content, skips the file   *)
(* if the digest is the upper checksum and writes it otherwise; it does not *)
(* fail.                                                                    *)
(* The code calls tar_file.extractfile(other_checksum) with the value it    *)
(* has just found to be None or empty, which raises.                        *)

C14_LowerWithoutChecksum ==
    /\ pc = "walk" /\ files # << >> /\ epoch_ok
    /\ tinfo.type = REGTYPE
    /\ matched
    /\ other_checksum \in {None, ""}

C14_LowerChecksumFallback ==
    [][C14_LowerWithoutChecksum =>
          /\ pc' # "error" /\ err' = ""
          /\ IF tinfo.pax_headers[PAX_HEADER_SHA256] = file_sha256(lower_found.body)
             THEN output' = output
             ELSE output' = addfile(output, tinfo, upper[path].content)]_vars

-----------------------------------------------------------------------------
(* C15.  Fold equals overlay visibility: after analyze_lowers folded the    *)
(* lower stack, the lower view holds a path only if the path is visible     *)
(* once the layers are applied in order.  In particular, after a            *)
(* ".wh.<name>" member no path at or beneath dir/name that earlier members  *)
(* contributed is in the view, or listed in lower_dir_contents, unless a    *)
(* later member adds it again; and no key of the view has a basename that   *)
(* starts with ".wh.".                                                      *)
(* A whiteout deletes the one key dir/name: the keys beneath a directory    *)
(* that was whited out stay in lower_files and in lower_dir_contents.       *)
(* The statement is checked on the stacks without opaque markers, which C8  *)
(* covers: it fails on those already.                                       *)

\* the paths visible after one more member: an opaque marker hides what is
\* beneath its directory, a whiteout hides its target and what is beneath it
C15_Apply(paths, name) ==
    LET dir  == norm(dirname_of(name))
        base == basename_of(name)
    IN  IF base = ".wh..wh..opq"
        THEN {q \in paths : ~beneath(q, dir)}
        ELSE IF startswith(base, ".wh.")
        THEN LET target == Append(dir, strfrom(base, 4))
             IN  {q \in paths : q # target /\ ~beneath(q, target)}
        ELSE paths \cup {norm(name)}

RECURSIVE C15_ApplyTar(_, _)
C15_ApplyTar(paths, tar) ==
    IF tar = << >> THEN paths
    ELSE C15_ApplyTar(C15_Apply(paths, tar[1].name), Tail(tar))

RECURSIVE C15_ApplyAll(_, _)
C15_ApplyAll(paths, tars) ==
    IF tars = << >> THEN paths
    ELSE C15_ApplyAll(C15_ApplyTar(paths, tars[1]), Tail(tars))

\* the paths a reader sees after the lower tars are applied in order
C15_Visible == C15_ApplyAll({}, lowers)

\* the paths lower_dir_contents lists
C15_Listed ==
    UNION {{norm(join(d, lower_dir_contents[d][i])) :
               i \in 1..Len(lower_dir_contents[d])} :
           d \in DOMAIN lower_dir_contents}

\* no member of the lower stack is an opaque marker
C15_NoOpaqueMarker ==
    \A i \in 1..Len(lowers) : \A j \in 1..Len(lowers[i]) :
        basename_of(lowers[i][j].name) # ".wh..wh..opq"

C15_FoldIsOverlay ==
    pc \in {"walk", "done"} /\ C15_NoOpaqueMarker =>
        /\ lower_view \subseteq C15_Visible
        /\ C15_Listed \subseteq C15_Visible
        /\ \A k \in Range(keys(lower_files)) :
              ~startswith(basename_of(k), ".wh.")

-----------------------------------------------------------------------------
(* C16.  Unexpected type in the matched branch: when an entry of the upper  *)
(* that is neither a directory, a regular file, a hard link nor a symlink   *)
(* (a fifo, a character or a block device) is in the lower view with the    *)
(* same type, uid, gid, mode, mtime, size and xattr headers, create_layer   *)
(* aborts with an error that names the path and the type, and writes no     *)
(* entry from then on.                                                      *)

C16_MatchedOtherType ==
    /\ pc = "walk" /\ files # << >> /\ epoch_ok
    /\ tar_type(path, rel, inodes) \in {FIFOTYPE, CHRTYPE, BLKTYPE}
    /\ has_key(lower_files, rel)
    /\ same_info(tinfo, lower_found)

C16_UnexpectedTypeAborts ==
    [][/\ C16_MatchedOtherType =>
             /\ pc' = "error"
             /\ err' = "RuntimeError: " \o fspath(path) \o " unexpected type b'"
                           \o tar_type(path, rel, inodes) \o "'"
             /\ output' = output
       /\ pc = "error" => output' = output /\ pc' = "error"]_vars

\* the run stopped at the device "a", and the file "b" after it is not written
C16_Witness ==
    /\ pc = "error"
    /\ err = "RuntimeError: upper/a unexpected type b'3'"
    /\ files = <<"a", "b">>
    /\ <<"b">> \in DOMAIN upper /\ <<"b">> \notin names_written
    /\ Len(output) = 1

-----------------------------------------------------------------------------
(* C17.  Blob promotion: a file is at blobs/sha256/<h> through Blob.create  *)
(* only after the with-body ended without error, h is the SHA-256 of the    *)
(* file's whole content and the descriptor's size is its length; if the     *)
(* body, the hashing or the rename fails, the temporary file is removed, no *)
(* blob is promoted for it and the error is raised again to the caller.     *)
(* The handler passes over a failure of os.unlink: the error is raised      *)
(* again with the temporary file still in the output directory.             *)

\* every promoted file holds all the body wrote and is named by its digest
C17_PromotedIsComplete ==
    \A b \in blobs :
        /\ pc = "created"
        /\ b.data = body_data
        /\ b.name = hexdigest(b.data)
        /\ blob.filename = b.name
        /\ blob.descriptor.digest = <<"sha256:", hexdigest(b.data)>>
        /\ blob.descriptor.size = Len(b.data)
        /\ ~tmpfile.exists

\* Blob.create ended with an exception
C17_Failed == pc = "error" /\ cleanup # ""

C17_ErrorRaisedAgain ==
    err \in {"OSError in the body", "OSError in the hashing",
             "OSError in makedirs", "OSError in rename"}

C17_BlobPromotion ==
    /\ C17_PromotedIsComplete
    /\ C17_Failed => ~tmpfile.exists /\ blobs = {} /\ C17_ErrorRaisedAgain

(* C17, amended.  As above, but on a failure the removal of the temporary   *)
(* file is attempted and a failure of the removal is ignored: the temporary *)
(* file is gone unless os.unlink failed; in both cases no blob is promoted  *)
(* and the first error is raised again to the caller.                       *)

C17_PromotionOrCleanup ==
    /\ C17_PromotedIsComplete
    /\ C17_Failed =>
          /\ tmpfile.exists <=> cleanup = "unlink failed"
          /\ blobs = {}
          /\ C17_ErrorRaisedAgain

\* the rename failed after the whole gzip stream was written and hashed:
\* the temporary file is removed and nothing is under blobs/sha256
C17_Witness ==
    /\ C17_Failed
    /\ err = "OSError in rename" /\ cleanup = "removed"
    /\ compression = gzip /\ Len(output) = MaxChunks
    /\ blob.descriptor.size = Len(output) + 1
    /\ ~tmpfile.exists /\ blobs = {}

=============================================================================
